---- MODULE Spec2Model ----
(***************************************************************************)
(* A model of charts/consul/hack/mass-pr-commenter/comment.py: the script  *)
(* lists the pull requests of a repository with `gh pr list`, extracts     *)
(* their numbers from the JSON the tool prints, asks for confirmation and  *)
(* runs `gh pr comment` once per number.                                   *)
(*                                                                         *)
(* bytes are sequences of 0..255, text is a sequence of code points.       *)
(***************************************************************************)
EXTENDS Integers, Sequences, FiniteSets, TLC

\* ------------------------------------------------------------------------
\* bytes.decode("utf-8")  (strict error handler)
\* ------------------------------------------------------------------------

\* The one element of a set of one element. A value is named by writing
\* The({e(x) : x \in {v}}): x is v, computed once.
The(S) == CHOOSE x \in S : TRUE

At(s, p) == IF p >= 1 /\ p <= Len(s) THEN s[p] ELSE -1

IsCont(b) == b >= 128 /\ b <= 191

\* Number of bytes of the well-formed UTF-8 sequence that starts at p, or 0
\* when the bytes at p are not one (truncated, overlong, surrogate, > U+10FFFF).
utf8_width(b, p) ==
    LET b0 == At(b, p)
        b1 == At(b, p + 1)
        b2 == At(b, p + 2)
        b3 == At(b, p + 3)
    IN  IF b0 >= 0 /\ b0 <= 127 THEN 1
        ELSE IF b0 >= 194 /\ b0 <= 223 THEN (IF IsCont(b1) THEN 2 ELSE 0)
        ELSE IF b0 = 224 THEN (IF b1 >= 160 /\ b1 <= 191 /\ IsCont(b2) THEN 3 ELSE 0)
        ELSE IF b0 = 237 THEN (IF b1 >= 128 /\ b1 <= 159 /\ IsCont(b2) THEN 3 ELSE 0)
        ELSE IF b0 >= 225 /\ b0 <= 239 THEN (IF IsCont(b1) /\ IsCont(b2) THEN 3 ELSE 0)
        ELSE IF b0 = 240 THEN (IF b1 >= 144 /\ b1 <= 191 /\ IsCont(b2) /\ IsCont(b3) THEN 4 ELSE 0)
        ELSE IF b0 >= 241 /\ b0 <= 243 THEN (IF IsCont(b1) /\ IsCont(b2) /\ IsCont(b3) THEN 4 ELSE 0)
        ELSE IF b0 = 244 THEN (IF b1 >= 128 /\ b1 <= 143 /\ IsCont(b2) /\ IsCont(b3) THEN 4 ELSE 0)
        ELSE 0

utf8_codepoint(b, p, w) ==
    IF w = 1 THEN b[p]
    ELSE IF w = 2 THEN (b[p] - 192) * 64 + (b[p + 1] - 128)
    ELSE IF w = 3 THEN (b[p] - 224) * 4096 + (b[p + 1] - 128) * 64 + (b[p + 2] - 128)
    ELSE (b[p] - 240) * 262144 + (b[p + 1] - 128) * 4096
         + (b[p + 2] - 128) * 64 + (b[p + 3] - 128)

\* The places of b, in order, that hold no continuation byte: where the
\* characters start.
starts_of(b) == SelectSeq([p \in 1..Len(b) |-> p], LAMBDA p : ~IsCont(b[p]))

\* Every byte starts a well-formed sequence or continues the one that starts
\* at most three bytes before it.
well_formed(b) ==
    \A p \in 1..Len(b) :
        IF ~IsCont(b[p]) THEN utf8_width(b, p) > 0
        ELSE \E k \in 1..3 : /\ p - k >= 1
                             /\ ~IsCont(b[p - k])
                             /\ utf8_width(b, p - k) > k

\* bytes.decode("utf-8"): [ok |-> FALSE] stands for UnicodeDecodeError. The
\* text is the sequence of the code points that start at starts_of(b).
decode(b) ==
    IF ~well_formed(b) THEN [ok |-> FALSE, text |-> <<>>]
    ELSE The({[ok |-> TRUE,
               text |-> SubSeq([j \in 1..Len(st) |->
                                  utf8_codepoint(b, st[j], utf8_width(b, st[j]))],
                               1, Len(st))]
              : st \in {starts_of(b)}})

\* ------------------------------------------------------------------------
\* json.loads: the interpreter's limits
\* ------------------------------------------------------------------------

\* sys.getrecursionlimit(), CPython's default: the calls that may be active at
\* once.
RecursionLimit == 1000

\* sys.get_int_max_str_digits(), CPython's default: the digits int() accepts
\* in a decimal literal.
MaxStrDigits == 4300

\* The calls active when the script's json.loads enters the scanner: the
\* module, format, loads, decode, raw_decode and the call of scan_once.
CallDepth == 6

\* The calls raise_errmsg adds: JSONDecodeError(...), its __init__ and a
\* method called there.
ErrmsgDepth == 3

\* The call _parse_constant adds: parse_constant(name).
ConstantDepth == 1

\* h more calls inside k open arrays and objects exceed the recursion limit.
too_deep(k, h) == CallDepth + k + h > RecursionLimit

\* ------------------------------------------------------------------------
\* json.loads: values
\* ------------------------------------------------------------------------

\* A Python value: t is its type, n an int's (or bool's) value, s the text of
\* a str (or the lexeme of a float), a the items of a list or of a dict.
PyInt(n)   == [t |-> "int",   n |-> n, s |-> <<>>, a |-> <<>>]
PyStr(s)   == [t |-> "str",   n |-> 0, s |-> s,    a |-> <<>>]
PyFloat(s) == [t |-> "float", n |-> 0, s |-> s,    a |-> <<>>]
PyList(a)  == [t |-> "list",  n |-> 0, s |-> <<>>, a |-> a]
PyDict(a)  == [t |-> "dict",  n |-> 0, s |-> <<>>, a |-> a]
PyBool(n)  == [t |-> "bool",  n |-> n, s |-> <<>>, a |-> <<>>]
PyNone     == [t |-> "None",  n |-> 0, s |-> <<>>, a |-> <<>>]

\* An item of a dict.
Item(k, v) == [t |-> "item", n |-> 0, s |-> k, a |-> <<v>>]

\* dict(pairs): a key keeps the place of its first occurrence and the value
\* of its last.
RECURSIVE dict_of(_, _)
dict_of(pairs, acc) ==
    IF pairs = <<>> THEN acc
    ELSE The({IF at = {} THEN The({dict_of(rest, acc2) : acc2 \in {Append(acc, it)}})
              ELSE The({dict_of(rest, acc2) : acc2 \in {[acc EXCEPT ![The(at)] = it]}})
              : it \in {Head(pairs)},
                rest \in {Tail(pairs)},
                at \in {{i \in 1..Len(acc) : acc[i].s = Head(pairs).s}}})

\* The result of a scanning step: val is the value read and end the place
\* after it, or ok is FALSE and exc the exception raised.
Raised(e) == [ok |-> FALSE, val |-> PyNone, end |-> 0, exc |-> e]
Ok(v, e) == [ok |-> TRUE, val |-> v, end |-> e, exc |-> ""]

\* raise_errmsg inside k open arrays and objects: JSONDecodeError, when the
\* calls that build it fit under the recursion limit.
raise_errmsg(k) ==
    IF too_deep(k, ErrmsgDepth) THEN Raised("RecursionError")
    ELSE Raised("JSONDecodeError")

\* No value starts here; raw_decode turns it into JSONDecodeError.
raise_stop_iteration == Raised("StopIteration")

IsWs(c) == c \in {32, 9, 10, 13}
IsDigit(c) == c >= 48 /\ c <= 57

\* The first place from p on that holds no whitespace (WHITESPACE.match).
skip_ws(s, p) ==
    IF p > Len(s) THEN p
    ELSE The({q \in p..(Len(s) + 1) :
              ~IsWs(At(s, q)) /\ \A r \in p..(q - 1) : IsWs(s[r])})

\* The first place from p on that holds no digit.
skip_digits(s, p) ==
    IF p > Len(s) THEN p
    ELSE The({q \in p..(Len(s) + 1) :
              ~IsDigit(At(s, q)) /\ \A r \in p..(q - 1) : IsDigit(s[r])})

StartsWith(s, p, w) ==
    /\ p + Len(w) - 1 <= Len(s)
    /\ \A i \in 1..Len(w) : s[p + i - 1] = w[i]

\* ------------------------------------------------------------------------
\* json.decoder.scanstring (strict)
\* ------------------------------------------------------------------------

HexVal(c) ==
    IF c >= 48 /\ c <= 57 THEN c - 48
    ELSE IF c >= 97 /\ c <= 102 THEN c - 87
    ELSE IF c >= 65 /\ c <= 70 THEN c - 55
    ELSE -1

IsHex4(s, p) == \A i \in 0..3 : HexVal(At(s, p + i)) >= 0

Hex4(s, p) ==
    HexVal(s[p]) * 4096 + HexVal(s[p + 1]) * 256 + HexVal(s[p + 2]) * 16 + HexVal(s[p + 3])

\* The characters a backslash may precede, and what they stand for.
BACKSLASH(c) ==
    CASE c = 34  -> 34
      [] c = 92  -> 92
      [] c = 47  -> 47
      [] c = 98  -> 8
      [] c = 102 -> 12
      [] c = 110 -> 10
      [] c = 114 -> 13
      [] c = 116 -> 9
      [] OTHER   -> -1

RECURSIVE scanstring(_, _, _, _)

\* The escape \uXXXX at the backslash at p.
scan_escape_u(s, p, acc, k) ==
    IF ~IsHex4(s, p + 2) THEN raise_errmsg(k)
    ELSE The({IF /\ u >= 55296 /\ u <= 56319
                 /\ q + 6 <= Len(s)
                 /\ s[q] = 92 /\ s[q + 1] = 117
              THEN (IF ~IsHex4(s, q + 2) THEN raise_errmsg(k)
                    ELSE The({IF u2 >= 56320 /\ u2 <= 57343
                              THEN The({scanstring(s, q2, acc2, k) :
                                        q2 \in {q + 6},
                                        acc2 \in {Append(acc, 65536 + (u - 55296) * 1024
                                                                   + (u2 - 56320))}})
                              ELSE The({scanstring(s, q, acc2, k) : acc2 \in {Append(acc, u)}})
                              : u2 \in {Hex4(s, q + 2)}}))
              ELSE The({scanstring(s, q, acc2, k) : acc2 \in {Append(acc, u)}})
              : u \in {Hex4(s, p + 2)}, q \in {p + 6}})

\* The first place from p on that ends a run of plain characters: a quote,
\* a backslash, a control character or the end of s.
chunk_end(s, p) ==
    IF p > Len(s) THEN p
    ELSE The({q \in p..(Len(s) + 1) :
              /\ (q > Len(s) \/ s[q] \in {34, 92} \/ s[q] < 32)
              /\ \A r \in p..(q - 1) : ~(s[r] \in {34, 92} \/ s[r] < 32)})

\* The escape at the backslash at p.
scan_escape(s, p, acc, k) ==
    The({IF e = -1 THEN raise_errmsg(k)
         ELSE IF e = 117 THEN scan_escape_u(s, p, acc, k)
         ELSE IF BACKSLASH(e) = -1 THEN raise_errmsg(k)
         ELSE The({scanstring(s, q, acc2, k) :
                   q \in {p + 2}, acc2 \in {Append(acc, BACKSLASH(e))}})
         : e \in {At(s, p + 1)}})

\* p is the place after the opening quote, or further in the string; acc is
\* the text read so far; the string is inside k open arrays and objects.
scanstring(s, p, acc, k) ==
    The({IF q > Len(s) THEN raise_errmsg(k)
         ELSE IF s[q] = 34 THEN Ok(PyStr(acc \o SubSeq(s, p, q - 1)), q + 1)
         ELSE IF s[q] = 92 THEN The({scan_escape(s, q, acc2, k) :
                                     acc2 \in {acc \o SubSeq(s, p, q - 1)}})
         ELSE raise_errmsg(k)
         : q \in {chunk_end(s, p)}})

\* ------------------------------------------------------------------------
\* json.scanner: numbers, literals, arrays, objects
\* ------------------------------------------------------------------------

\* int(text) for the digits at p..q-1.
RECURSIVE digits_value(_, _, _, _)
digits_value(s, p, q, acc) ==
    IF p >= q THEN acc
    ELSE The({digits_value(s, p2, q, acc2) :
              p2 \in {p + 1}, acc2 \in {acc * 10 + (s[p] - 48)}})

\* NUMBER_RE = (-?(?:0|[1-9][0-9]*))(\.[0-9]+)?([eE][-+]?[0-9]+)?  matched at p:
\* d is the place of the first digit, and iend, fend, eend the places after
\* the integer, the fraction and the exponent. A number with a fraction or an
\* exponent is a float; for the others int() refuses more than MaxStrDigits
\* digits with ValueError.
number_exp(s, p, d, iend, fend) ==
    The({The({IF eend > iend THEN Ok(PyFloat(SubSeq(s, p, eend - 1)), eend)
              ELSE IF iend - d > MaxStrDigits THEN Raised("ValueError")
              ELSE Ok(PyInt((IF d > p THEN -1 ELSE 1) * digits_value(s, d, iend, 0)), iend)
              : eend \in {IF At(s, fend) \in {101, 69} /\ IsDigit(At(s, e1))
                          THEN skip_digits(s, e1) ELSE fend}})
         : e1 \in {IF At(s, fend + 1) \in {43, 45} THEN fend + 2 ELSE fend + 1}})

number_frac(s, p, d, iend) ==
    IF iend = d THEN raise_stop_iteration
    ELSE The({number_exp(s, p, d, iend, fend)
              : fend \in {IF At(s, iend) = 46 /\ IsDigit(At(s, iend + 1))
                          THEN skip_digits(s, iend + 1) ELSE iend}})

scan_number(s, p) ==
    The({The({number_frac(s, p, d, iend)
              : iend \in {IF At(s, d) = 48 THEN d + 1
                          ELSE IF IsDigit(At(s, d)) THEN skip_digits(s, d)
                          ELSE d}})
         : d \in {IF At(s, p) = 45 THEN p + 1 ELSE p}})

W_null == <<110, 117, 108, 108>>
W_true == <<116, 114, 117, 101>>
W_false == <<102, 97, 108, 115, 101>>
W_NaN == <<78, 97, 78>>
W_Infinity == <<73, 110, 102, 105, 110, 105, 116, 121>>
W_NegInfinity == <<45>> \o W_Infinity

RECURSIVE scan_once(_, _, _)
RECURSIVE JSONArray(_, _, _, _)
RECURSIVE JSONObject(_, _, _, _)

\* The object that opens at p, the k-th of the open arrays and objects.
scan_object(s, p, k) ==
    The({IF At(s, q) = 125 THEN Ok(PyDict(<<>>), q + 1)
         ELSE IF At(s, q) # 34 THEN raise_errmsg(k)
         ELSE The({JSONObject(s, n, <<>>, k) : n \in {q + 1}})
         : q \in {IF At(s, p + 1) = 34 THEN p + 1 ELSE skip_ws(s, p + 1)}})

\* The array that opens at p, the k-th of the open arrays and objects.
scan_array(s, p, k) ==
    The({IF At(s, q) = 93 THEN Ok(PyList(<<>>), q + 1)
         ELSE JSONArray(s, q, <<>>, k)
         : q \in {skip_ws(s, p + 1)}})

\* _parse_constant: NaN, Infinity and -Infinity go through parse_constant,
\* a call of its own.
scan_constant(w, e, k) ==
    IF too_deep(k, ConstantDepth) THEN Raised("RecursionError")
    ELSE Ok(PyFloat(w), e)

\* p is the place of the value's first character; the value is inside k open
\* arrays and objects. An array or an object is entered when the recursion
\* limit allows one more call.
scan_once(s, p, k) ==
    The({IF c = -1 THEN raise_stop_iteration
         ELSE IF c = 34 THEN The({scanstring(s, q, <<>>, k) : q \in {p + 1}})
         ELSE IF c = 123 THEN (IF too_deep(k, 1) THEN Raised("RecursionError")
                               ELSE The({scan_object(s, p, n) : n \in {k + 1}}))
         ELSE IF c = 91 THEN (IF too_deep(k, 1) THEN Raised("RecursionError")
                              ELSE The({scan_array(s, p, n) : n \in {k + 1}}))
         ELSE IF c = 110 /\ StartsWith(s, p, W_null) THEN Ok(PyNone, p + 4)
         ELSE IF c = 116 /\ StartsWith(s, p, W_true) THEN Ok(PyBool(1), p + 4)
         ELSE IF c = 102 /\ StartsWith(s, p, W_false) THEN Ok(PyBool(0), p + 5)
         ELSE IF c = 78 /\ StartsWith(s, p, W_NaN) THEN scan_constant(W_NaN, p + 3, k)
         ELSE IF c = 73 /\ StartsWith(s, p, W_Infinity)
              THEN scan_constant(W_Infinity, p + 8, k)
         ELSE IF c = 45 /\ StartsWith(s, p, W_NegInfinity)
              THEN scan_constant(W_NegInfinity, p + 9, k)
         ELSE scan_number(s, p)
         : c \in {At(s, p)}})

\* The step of JSONArray after the value r: q is the place after it and the
\* whitespace that follows.
array_next(s, q, vs, k) ==
    IF At(s, q) = 93 THEN Ok(PyList(vs), q + 1)
    ELSE IF At(s, q) # 44 THEN raise_errmsg(k)
    ELSE The({JSONArray(s, n, vs, k) : n \in {skip_ws(s, q + 1)}})

\* p is the place of the next element's first character.
JSONArray(s, p, values, k) ==
    The({IF ~r.ok THEN r
         ELSE The({array_next(s, q, vs, k) :
                   q \in {skip_ws(s, r.end)}, vs \in {Append(values, r.val)}})
         : r \in {scan_once(s, p, k)}})

\* The step of JSONObject after a pair: q is the place after it and the
\* whitespace that follows.
object_next(s, q, ps, k) ==
    IF At(s, q) = 125 THEN Ok(PyDict(dict_of(ps, <<>>)), q + 1)
    ELSE IF At(s, q) # 44 THEN raise_errmsg(k)
    ELSE The({IF At(s, n) # 34 THEN raise_errmsg(k)
              ELSE The({JSONObject(s, m, ps, k) : m \in {n + 1}})
              : n \in {skip_ws(s, q + 1)}})

\* The step of JSONObject after the key: c is the place after it and the
\* whitespace that follows.
object_value(s, c, key, pairs, k) ==
    IF At(s, c) # 58 THEN raise_errmsg(k)
    ELSE The({The({IF ~r.ok THEN r
                   ELSE The({object_next(s, q, ps, k) :
                             q \in {skip_ws(s, r.end)},
                             ps \in {Append(pairs, Item(key, r.val))}})
                   : r \in {scan_once(s, v, k)}})
              : v \in {skip_ws(s, c + 1)}})

\* p is the place after the opening quote of the next key.
JSONObject(s, p, pairs, k) ==
    The({IF ~key.ok THEN key
         ELSE The({object_value(s, c, key.val.s, pairs, k) : c \in {skip_ws(s, key.end)}})
         : key \in {scanstring(s, p, <<>>, k)}})

\* json.loads(s) for a str s: one value with whitespace around it and nothing
\* else; a leading U+FEFF is refused.
loads(s) ==
    IF At(s, 1) = 65279 THEN Raised("JSONDecodeError")
    ELSE The({The({IF r.exc = "StopIteration" THEN Raised("JSONDecodeError")
                   ELSE IF ~r.ok THEN r
                   ELSE IF skip_ws(s, r.end) # Len(s) + 1 THEN Raised("JSONDecodeError")
                   ELSE r
                   : r \in {scan_once(s, p, 0)}})
              : p \in {skip_ws(s, 1)}})

\* ------------------------------------------------------------------------
\* format
\* ------------------------------------------------------------------------

K_number == <<110, 117, 109, 98, 101, 114>>

\* iter(v): the items a for loop over v visits; ok = FALSE stands for
\* TypeError (v is not iterable).
RECURSIVE chars_of(_, _)
chars_of(s, acc) ==
    IF s = <<>> THEN acc
    ELSE The({chars_of(rest, acc2) :
              rest \in {Tail(s)}, acc2 \in {Append(acc, PyStr(<<Head(s)>>))}})

RECURSIVE keys_of(_, _)
keys_of(a, acc) ==
    IF a = <<>> THEN acc
    ELSE The({keys_of(rest, acc2) :
              rest \in {Tail(a)}, acc2 \in {Append(acc, PyStr(Head(a).s))}})

iter(v) ==
    IF v.t = "list" THEN [ok |-> TRUE, items |-> v.a]
    ELSE IF v.t = "dict" THEN [ok |-> TRUE, items |-> keys_of(v.a, <<>>)]
    ELSE IF v.t = "str" THEN [ok |-> TRUE, items |-> chars_of(v.s, <<>>)]
    ELSE [ok |-> FALSE, items |-> <<>>]

\* pr.get("number"): None for a dict without the key.
getitem_number_get(pr) ==
    IF pr.t # "dict" THEN [exc |-> "TypeError", val |-> PyNone]
    ELSE LET at == {k \in 1..Len(pr.a) : pr.a[k].s = K_number}
         IN  IF at = {} THEN [exc |-> "", val |-> PyNone]
             ELSE [exc |-> "", val |-> pr.a[CHOOSE k \in at : TRUE].a[1]]

\* pr["number"]: exc is "" and val the value, or exc is the exception raised.
getitem_number(pr) ==
    IF pr.t # "dict" THEN [exc |-> "TypeError", val |-> PyNone]
    ELSE LET at == {i \in 1..Len(pr.a) : pr.a[i].s = K_number}
         IN  IF at = {} THEN [exc |-> "KeyError", val |-> PyNone]
             ELSE [exc |-> "", val |-> pr.a[CHOOSE i \in at : TRUE].a[1]]

\* The numbers without the ones seen before.
RECURSIVE numbers_of_unique(_, _)
numbers_of_unique(items, acc) ==
    IF items = <<>> THEN [exc |-> "", val |-> acc]
    ELSE The({IF g.exc # "" THEN [exc |-> g.exc, val |-> <<>>]
              ELSE The({numbers_of_unique(rest, acc2) :
                        rest \in {Tail(items)},
                        acc2 \in {IF \E k \in 1..Len(acc) : acc[k] = g.val
                                  THEN acc ELSE Append(acc, g.val)}})
              : g \in {getitem_number(Head(items))}})

\* [pr["number"] for pr in items]
RECURSIVE numbers_of(_, _)
numbers_of(items, acc) ==
    IF items = <<>> THEN [exc |-> "", val |-> acc]
    ELSE The({IF g.exc # "" THEN [exc |-> g.exc, val |-> <<>>]
              ELSE The({numbers_of(rest, acc2) :
                        rest \in {Tail(items)}, acc2 \in {Append(acc, g.val)}})
              : g \in {getitem_number(Head(items))}})

\* format(prs): exc is "" and val the list returned, or exc is the exception
\* that propagates.
format(prs) ==
    The({IF ~d.ok THEN [exc |-> "UnicodeDecodeError", val |-> <<>>]
         ELSE The({IF ~r.ok THEN [exc |-> r.exc, val |-> <<>>]
                   ELSE The({IF ~it.ok THEN [exc |-> "TypeError", val |-> <<>>]
                             ELSE numbers_of(it.items, <<>>)
                             : it \in {iter(r.val)}})
                   : r \in {loads(d.text)}})
         : d \in {decode(prs)}})

\* ------------------------------------------------------------------------
\* str()
\* ------------------------------------------------------------------------

\* The printable ASCII characters U+0020..U+005F and U+0061..U+007E.
Printable ==
    <<" ", "!", "\"", "#", "$", "%", "&", "'", "(", ")", "*", "+", ",", "-", ".", "/",
      "0", "1", "2", "3", "4", "5", "6", "7", "8", "9", ":", ";", "<", "=", ">", "?",
      "@", "A", "B", "C", "D", "E", "F", "G", "H", "I", "J", "K", "L", "M", "N", "O",
      "P", "Q", "R", "S", "T", "U", "V", "W", "X", "Y", "Z", "[", "\\", "]", "^", "_">>

PrintableLower ==
    <<"a", "b", "c", "d", "e", "f", "g", "h", "i", "j", "k", "l", "m", "n", "o",
      "p", "q", "r", "s", "t", "u", "v", "w", "x", "y", "z", "{", "|", "}", "~">>

Chr(c) == IF c < 96 THEN Printable[c - 31] ELSE PrintableLower[c - 96]

RECURSIVE str_nat(_)
str_nat(n) == IF n < 10 THEN Chr(48 + n) ELSE str_nat(n \div 10) \o Chr(48 + (n % 10))

str_int(n) == IF n < 0 THEN "-" \o str_nat(-n) ELSE str_nat(n)

RECURSIVE str_text(_)
str_text(s) == IF s = <<>> THEN "" ELSE Chr(Head(s)) \o str_text(Tail(s))

\* str(pr) for the values whose str() is modelled: int, str (of printable
\* ASCII), bool and None.
str(pr) ==
    CASE pr.t = "int"  -> str_int(pr.n)
      [] pr.t = "str"  -> str_text(pr.s)
      [] pr.t = "bool" -> (IF pr.n = 1 THEN "True" ELSE "False")
      [] pr.t = "None" -> "None"

\* ------------------------------------------------------------------------
\* The environment: arguments, the gh tool, standard input
\* ------------------------------------------------------------------------

\* Longest identifier list, and largest identifier, of the generated listings.
MaxPRs == 2
MaxId == 2

\* b'['
B_open == <<91>>

\* b']\n'
B_close == <<93, 10>>

\* b','
B_sep == <<44>>

\* b'{"number":'
B_obj_open == <<123, 34, 110, 117, 109, 98, 101, 114, 34, 58>>

\* b'}'
B_obj_close == <<125>>

\* The digits of n as bytes.
RECURSIVE digit_bytes(_)
digit_bytes(n) == IF n < 10 THEN <<48 + n>> ELSE digit_bytes(n \div 10) \o <<48 + (n % 10)>>

\* What `gh pr list --json number` prints for the pull requests ns:
\* [{"number":n1},{"number":n2}] and a newline.
RECURSIVE listing_items(_)
listing_items(ns) ==
    IF ns = <<>> THEN <<>>
    ELSE B_obj_open \o digit_bytes(Head(ns)) \o B_obj_close
         \o (IF Tail(ns) = <<>> THEN <<>> ELSE B_sep \o listing_items(Tail(ns)))

listing_of(ns) == B_open \o listing_items(ns) \o B_close

IdLists == UNION {[1..n -> 1..MaxId] : n \in 0..MaxPRs}

\* b'[{"number":5},{"number":7}]'
L_5_7 == <<91, 123, 34, 110, 117, 109, 98, 101, 114, 34, 58, 53, 125, 44, 123, 34, 110, 117, 109, 98, 101, 114, 34, 58, 55, 125, 93>>

\* b' [ {"id": "x", "number": 12} ,\n {"number":3,"number":4} ]\n'
L_spaced == <<32, 91, 32, 123, 34, 105, 100, 34, 58, 32, 34, 120, 34, 44, 32, 34, 110, 117, 109, 98, 101, 114, 34, 58, 32, 49, 50, 125, 32, 44, 10, 32, 123, 34, 110, 117, 109, 98, 101, 114, 34, 58, 51, 44, 34, 110, 117, 109, 98, 101, 114, 34, 58, 52, 125, 32, 93, 10>>

\* b'not json'
L_not_json == <<110, 111, 116, 32, 106, 115, 111, 110>>

\* b'': the tool failed and printed nothing
L_empty == <<>>

\* b'[{"number":1}'
L_truncated == <<91, 123, 34, 110, 117, 109, 98, 101, 114, 34, 58, 49, 125>>

\* b'[{"id":1}]'
L_no_number == <<91, 123, 34, 105, 100, 34, 58, 49, 125, 93>>

\* b'[{"number":1},{"id":2}]'
L_second_no_number == <<91, 123, 34, 110, 117, 109, 98, 101, 114, 34, 58, 49, 125, 44, 123, 34, 105, 100, 34, 58, 50, 125, 93>>

\* b'[{"number":1}]\xff'
L_not_utf8 == <<91, 123, 34, 110, 117, 109, 98, 101, 114, 34, 58, 49, 125, 93, 255>>

\* b'{}': JSON, but no array
L_object == <<123, 125>>

\* b'5': JSON, but no array
L_scalar == <<53>>

\* b'[1]': an array, but not of objects
L_not_objects == <<91, 49, 93>>

\* b'[{"number":11...1}]\n' with one digit more than int() accepts
L_long_number ==
    B_open \o B_obj_open \o [j \in 1..(MaxStrDigits + 1) |-> 49] \o B_obj_close \o B_close

\* Listings that are not valid JSON.
NotJSON == {L_not_json, L_empty, L_truncated}

\* Listings that are JSON arrays with an element that lacks "number".
LacksNumber == {L_no_number, L_second_no_number}

\* What the listing invocation may print.
ListingOutputs ==
    {listing_of(ns) : ns \in IdLists}
    \cup {L_5_7, L_spaced, L_not_utf8, L_object, L_scalar, L_not_objects, L_long_number}
    \cup NotJSON \cup LacksNumber

\* b'https://a\n'
C_url_a == <<104, 116, 116, 112, 115, 58, 47, 47, 97, 10>>

\* b'b'
C_url_b == <<98>>

\* b'\xc3'
C_not_utf8 == <<195>>

\* What a comment invocation may print.
CommentOutputs == {<<>>, C_url_a, C_url_b, C_not_utf8}

\* The lines standard input may hold (without the newline).
StdinLines == {"y", "Y", "n", "N", "", "yes", " y", "y "}

\* Standard input: one line, or nothing (end of input).
StdinChoices == {<<>>} \cup {<<line>> : line \in StdinLines}

\* sys.argv: the script and its arguments.
ArgvChoices ==
    {<<"comment.py">>, <<"comment.py", "org/repo">>,
     <<"comment.py", "org/repo", "msg.md">>}

\* ------------------------------------------------------------------------
\* The script
\* ------------------------------------------------------------------------

VARIABLES
    pc,            \* where the script is
    argv,          \* sys.argv
    gh_installed,  \* whether the gh executable can be started
    file_exists,   \* whether the comment file exists
    stdin,         \* the lines of standard input
    repo,          \* __main__'s repo
    comment_file,  \* __main__'s comment_file
    procs,         \* the subprocesses started so far, in order
    prs,           \* __main__'s prs
    response,      \* __main__'s response
    i,             \* comment(): the place in prs of the generator
    outs,          \* comment(): the texts the generator has yielded
    ret,           \* comment(): the value returned
    printed,       \* what the script has written to standard output
    exc,           \* the exception that ended the script, "" for none
    posted         \* the comments on the service, in the order posted

vars == <<pc, argv, gh_installed, file_exists, stdin, repo, comment_file, procs, prs,
          response, i, outs, ret, printed, exc, posted>>

\* A subprocess: status is "running", "exited" or "hung" (it never exits).
Proc(args) == [args |-> args, status |-> "running", returncode |-> -1, stdout |-> <<>>]

IsListing(p) == p.args[3] = "list"
IsComment(p) == p.args[3] = "comment"

fetch_args(r) == <<"gh", "pr", "list", "--json", "\"number\"", "-R", r>>

comment_args(pr, r, f) == <<"gh", "pr", "comment", str(pr), "-F", f, "-R", r>>

\* subprocess.run starts the tool: the exception raised when it cannot.
popen_exc(installed) == IF installed THEN "" ELSE "FileNotFoundError"

\* Popen without a wait: the script goes on while the subprocess runs.
run_returns_nowait(p) == TRUE

\* A timeout that gives a hung subprocess up.
run_returns_timeout(p) == p.status \in {"exited", "hung"}

\* subprocess.run returns once the subprocess has exited (no timeout).
run_returns(p) == p.status = "exited"

\* check=True: a non-zero exit status raises.
run_check_true(p) == IF p.returncode # 0 THEN "CalledProcessError" ELSE ""

\* subprocess.run without check=True: the exception raised for the exit
\* status of the subprocess.
run_check(p) == ""

\* A gate that takes any answer that begins like yes.
confirmed_loose(r) == r \in {"y", "Y", "yes", "y "}

\* A gate whose default is yes.
confirmed_default_yes(r) == r \notin {"n", "N"}

\* response in ("y", "Y")
confirmed(r) == r \in {"y", "Y"}

\* The list walked from its end.
comment_pr_reversed(ps, k) == ps[Len(ps) + 1 - k]

\* for pr in prs: the pr of the k-th turn.
comment_pr(ps, k) == ps[k]

\* A loop that tries a failed invocation again.
next_turn_retry(k, p) == IF p.returncode # 0 THEN k ELSE k + 1

\* for pr in prs: the turn after the k-th, whatever the subprocess p of the
\* k-th turn did.
next_turn(k, p) == k + 1

\* "\n".join(texts)
RECURSIVE join_lines(_)
join_lines(texts) ==
    IF texts = <<>> THEN <<>>
    ELSE IF Tail(texts) = <<>> THEN Head(texts)
    ELSE Head(texts) \o <<10>> \o join_lines(Tail(texts))

\* "".join(texts)
RECURSIVE join(_)
join(texts) == IF texts = <<>> THEN <<>> ELSE Head(texts) \o join(Tail(texts))

prompt(n, r, f) ==
    "Comment on " \o str_int(n) \o " pull requests to the " \o r
    \o " repository with the contents of " \o f \o "? [y/N] "

\* An unhandled exception ends the script.
Raise(e) == pc' = "exited" /\ exc' = e

exit_code == IF exc = "" THEN 0 ELSE 1

Last(s) == s[Len(s)]

Init ==
    /\ pc = "start"
    /\ argv \in ArgvChoices
    /\ gh_installed \in BOOLEAN
    /\ file_exists \in BOOLEAN
    /\ stdin \in StdinChoices
    /\ repo = ""
    /\ comment_file = ""
    /\ procs = <<>>
    /\ prs = <<>>
    /\ response = ""
    /\ i = 0
    /\ outs = <<>>
    /\ ret = <<>>
    /\ printed = <<>>
    /\ exc = ""
    /\ posted = <<>>

\* repo = argv[1]; comment_file = argv[2]
Main_argv ==
    /\ pc = "start"
    /\ IF Len(argv) < 3
       THEN Raise("IndexError") /\ UNCHANGED <<repo, comment_file>>
       ELSE /\ repo' = argv[2]
            /\ comment_file' = argv[3]
            /\ pc' = "fetch"
            /\ exc' = exc
    /\ UNCHANGED <<argv, gh_installed, file_exists, stdin, procs, prs, response, i,
                   outs, ret, printed, posted>>

\* fetch: run(["gh", "pr", "list", ...]) starts the listing.
Fetch_run ==
    /\ pc = "fetch"
    /\ IF popen_exc(gh_installed) # ""
       THEN Raise(popen_exc(gh_installed)) /\ procs' = procs
       ELSE /\ procs' = Append(procs, Proc(fetch_args(repo)))
            /\ pc' = "fetch_wait"
            /\ exc' = exc
    /\ UNCHANGED <<argv, gh_installed, file_exists, stdin, repo, comment_file, prs,
                   response, i, outs, ret, printed, posted>>

\* What a running subprocess may end with: its exit status and output.
Outcomes(p) ==
    IF IsListing(p)
    THEN {[returncode |-> 0, stdout |-> o] : o \in ListingOutputs}
         \cup {[returncode |-> 1, stdout |-> L_empty]}
    ELSE IF ~file_exists
    THEN {[returncode |-> 1, stdout |-> <<>>]}
    ELSE {[returncode |-> 0, stdout |-> o] : o \in CommentOutputs}
         \cup {[returncode |-> 1, stdout |-> o] : o \in {<<>>, C_not_utf8}}

\* The tool: a running subprocess exits; a comment invocation that succeeds
\* has posted its comment.
ProcExit ==
    \E k \in 1..Len(procs) :
        /\ procs[k].status = "running"
        /\ \E o \in Outcomes(procs[k]) :
            /\ procs' = [procs EXCEPT ![k].status = "exited",
                                      ![k].returncode = o.returncode,
                                      ![k].stdout = o.stdout]
            /\ posted' = IF IsComment(procs[k]) /\ o.returncode = 0
                         THEN Append(posted, [pr |-> procs[k].args[4],
                                              file |-> procs[k].args[6],
                                              repo |-> procs[k].args[8]])
                         ELSE posted
        /\ UNCHANGED <<pc, argv, gh_installed, file_exists, stdin, repo, comment_file,
                       prs, response, i, outs, ret, printed, exc>>

\* The tool: a running subprocess hangs.
ProcHang ==
    \E k \in 1..Len(procs) :
        /\ procs[k].status = "running"
        /\ procs' = [procs EXCEPT ![k].status = "hung"]
        /\ UNCHANGED <<pc, argv, gh_installed, file_exists, stdin, repo, comment_file,
                       prs, response, i, outs, ret, printed, exc, posted>>

\* prs = format(fetch(repo)): run() returns the listing's output, format
\* extracts the numbers.
Main_format ==
    /\ pc = "fetch_wait"
    /\ run_returns(Last(procs))
    /\ \E p \in {Last(procs)} : \E f \in {format(p.stdout)} :
           IF run_check(p) # "" THEN Raise(run_check(p)) /\ prs' = prs
           ELSE IF f.exc # "" THEN Raise(f.exc) /\ prs' = prs
           ELSE /\ prs' = f.val
                /\ pc' = "input"
                /\ exc' = exc
    /\ UNCHANGED <<argv, gh_installed, file_exists, stdin, repo, comment_file, procs,
                   response, i, outs, ret, printed, posted>>

\* response = input(...): the prompt is written and a line is read.
Main_input ==
    /\ pc = "input"
    /\ stdin # <<>>
    /\ printed' = Append(printed, prompt(Len(prs), repo, comment_file))
    /\ response' = Head(stdin)
    /\ pc' = "confirm"
    /\ UNCHANGED <<argv, gh_installed, file_exists, stdin, repo, comment_file, procs,
                   prs, i, outs, ret, exc, posted>>

\* input(...) at the end of standard input.
Main_input_eof ==
    /\ pc = "input"
    /\ stdin = <<>>
    /\ printed' = Append(printed, prompt(Len(prs), repo, comment_file))
    /\ Raise("EOFError")
    /\ UNCHANGED <<argv, gh_installed, file_exists, stdin, repo, comment_file, procs,
                   prs, response, i, outs, ret, posted>>

\* if response in ("y", "Y"): ... ; otherwise the script ends.
Main_confirm ==
    /\ pc = "confirm"
    /\ IF confirmed(response)
       THEN pc' = "comment" /\ i' = 1
       ELSE pc' = "exited" /\ i' = i
    /\ UNCHANGED <<argv, gh_installed, file_exists, stdin, repo, comment_file, procs,
                   prs, response, outs, ret, printed, exc, posted>>

\* comment: the generator's next turn starts run(["gh", "pr", "comment", ...]).
Comment_run ==
    /\ pc = "comment"
    /\ i <= Len(prs)
    /\ IF popen_exc(gh_installed) # ""
       THEN Raise(popen_exc(gh_installed)) /\ procs' = procs
       ELSE /\ procs' = Append(procs,
                          Proc(comment_args(comment_pr(prs, i), repo, comment_file)))
            /\ pc' = "comment_wait"
            /\ exc' = exc
    /\ UNCHANGED <<argv, gh_installed, file_exists, stdin, repo, comment_file, prs,
                   response, i, outs, ret, printed, posted>>

\* comment: run() returns and the generator yields .stdout.decode("utf-8").
Comment_yield ==
    /\ pc = "comment_wait"
    /\ run_returns(Last(procs))
    /\ \E p \in {Last(procs)} : \E d \in {decode(p.stdout)} :
           IF run_check(p) # "" THEN Raise(run_check(p)) /\ UNCHANGED <<outs, i>>
           ELSE IF ~d.ok THEN Raise("UnicodeDecodeError") /\ UNCHANGED <<outs, i>>
           ELSE /\ outs' = Append(outs, d.text)
                /\ i' = next_turn(i, p)
                /\ pc' = "comment"
                /\ exc' = exc
    /\ UNCHANGED <<argv, gh_installed, file_exists, stdin, repo, comment_file, procs,
                   prs, response, ret, printed, posted>>

\* comment: the generator is exhausted and "".join returns.
Comment_return ==
    /\ pc = "comment"
    /\ i > Len(prs)
    /\ ret' = join(outs)
    /\ pc' = "print_done"
    /\ UNCHANGED <<argv, gh_installed, file_exists, stdin, repo, comment_file, procs,
                   prs, response, i, outs, printed, exc, posted>>

\* print("Done")
Main_print_done ==
    /\ pc = "print_done"
    /\ printed' = Append(printed, "Done")
    /\ pc' = "exited"
    /\ UNCHANGED <<argv, gh_installed, file_exists, stdin, repo, comment_file, procs,
                   prs, response, i, outs, ret, exc, posted>>

Next ==
    \/ Main_argv
    \/ Fetch_run
    \/ ProcExit
    \/ ProcHang
    \/ Main_format
    \/ Main_input
    \/ Main_input_eof
    \/ Main_confirm
    \/ Comment_run
    \/ Comment_yield
    \/ Comment_return
    \/ Main_print_done

Spec == Init /\ [][Next]_vars

\* Every step that can be taken is taken: the interpreter runs the script, the
\* line is read, and a subprocess that does not hang exits.
FairSpec == Spec /\ WF_vars(Next)

\* ------------------------------------------------------------------------
\* Properties
\* ------------------------------------------------------------------------

ListingProcs == SelectSeq(procs, IsListing)
CommentProcs == SelectSeq(procs, IsComment)

Yes == {"y", "Y"}

DonePrinted == \E k \in 1..Len(printed) : printed[k] = "Done"

\* comment() has returned.
Returned == pc = "print_done" \/ DonePrinted

\* The listing invocation has exited and format has been applied to its output.
Formatted ==
    /\ procs # <<>>
    /\ procs[1].status = "exited"
    /\ pc # "fetch_wait"

\* The arguments of the comment invocation for the identifier written id.
ExpectedArgs(id) == <<"gh", "pr", "comment", id, "-F", "msg.md", "-R", "org/repo">>

\* C1: a comment invocation occurs only if the line read is exactly "y" or
\* "Y"; with any other line there are no comment invocations, whatever the
\* identifiers are.
C1_ConfirmationGate ==
    /\ Len(CommentProcs) > 0 => stdin # <<>> /\ Head(stdin) \in Yes
    /\ pc \in {"comment", "comment_wait", "print_done"} => response \in Yes

\* The line "yes" was read, there are identifiers, and the run has ended
\* without a comment invocation.
C1_Witness ==
    /\ pc = "exited"
    /\ response = "yes"
    /\ Len(prs) = 2
    /\ Len(CommentProcs) = 0
    /\ Len(printed) = 1

\* C2: the comment invocations are, in order, one per identifier of prs, each
\* with the same repository and the same file: at every moment the ones made
\* so far are for the first identifiers of prs, and when comment() returns
\* there are exactly len(prs) of them (none for the empty list).
C2_OnePerIdentifier ==
    /\ Len(CommentProcs) <= Len(prs)
    /\ \A k \in 1..Len(CommentProcs) :
           \E n \in {prs[k].n} :
               prs[k].t = "int" /\ CommentProcs[k].args = ExpectedArgs(str_int(n))
    /\ Returned => Len(CommentProcs) = Len(prs)
    /\ Returned /\ procs[1].stdout = L_5_7 =>
           /\ Len(CommentProcs) = 2
           /\ CommentProcs[1].args = ExpectedArgs("5")
           /\ CommentProcs[2].args = ExpectedArgs("7")

\* comment() has returned for a list that holds the same identifier twice.
C2_Witness ==
    /\ Returned
    /\ Len(prs) = 2
    /\ prs[1] = prs[2]
    /\ Len(CommentProcs) = 2

\* The listings of the model that are arrays of objects with a number each,
\* and how many objects each holds.
NumberListings ==
    {listing_of(ns) : ns \in IdLists} \cup {L_5_7, L_spaced, L_long_number}

\* C3 as claimed: for every listing that is an array of objects with a number
\* each, format returns a list, as long as the array.
C3_FormatAsClaimed ==
    Formatted /\ procs[1].stdout \in NumberListings =>
        /\ pc = "input" \/ printed # <<>>
        /\ \A ns \in IdLists : procs[1].stdout = listing_of(ns) => Len(prs) = Len(ns)
        /\ procs[1].stdout \in {L_5_7, L_spaced} => Len(prs) = 2
        /\ procs[1].stdout = L_long_number => Len(prs) = 1

\* C3: for a listing that is an array of objects with a number each and that
\* json.loads accepts, format returns the numbers, as many as the objects and
\* in their order; for an integer of more digits than int() accepts format
\* raises ValueError and the run ends there.
C3_FormatInOrder ==
    Formatted =>
        /\ \A ns \in IdLists :
               procs[1].stdout = listing_of(ns) =>
                   /\ pc = "input" \/ printed # <<>>
                   /\ prs = [k \in 1..Len(ns) |-> PyInt(ns[k])]
        /\ procs[1].stdout = L_5_7 => prs = <<PyInt(5), PyInt(7)>>
        /\ procs[1].stdout = L_spaced => prs = <<PyInt(12), PyInt(4)>>
        /\ procs[1].stdout = L_long_number =>
               /\ pc = "exited" /\ exc = "ValueError"
               /\ prs = <<>> /\ printed = <<>>

\* format has returned [2, 1] for the listing of the pull requests 2 and 1.
C3_Witness ==
    /\ pc = "input"
    /\ procs[1].stdout = listing_of(<<2, 1>>)
    /\ prs = <<PyInt(2), PyInt(1)>>

\* C4: when the listing is not valid JSON, or an element of it lacks
\* "number", format fails and the run ends there: there is no comment
\* invocation, no prompt and no completion marker.
C4_MalformedListingAborts ==
    procs # <<>> /\ procs[1].status = "exited"
    /\ procs[1].stdout \in NotJSON \cup LacksNumber =>
        /\ Len(CommentProcs) = 0
        /\ printed = <<>>
        /\ pc \in {"fetch_wait", "exited"}
        /\ pc = "exited" =>
               exc = (IF procs[1].stdout \in NotJSON THEN "JSONDecodeError" ELSE "KeyError")

\* The run has ended on a listing whose second element lacks "number".
C4_Witness ==
    /\ pc = "exited"
    /\ procs # <<>>
    /\ procs[1].stdout = L_second_no_number
    /\ exc = "KeyError"

\* The comment invocations that have exited with status 0.
Succeeded == SelectSeq(CommentProcs, LAMBDA p : p.status = "exited" /\ p.returncode = 0)

Failed(p) == p.status = "exited" /\ p.returncode # 0

\* C5: a comment invocation that fails is neither detected nor reported and
\* the loop goes on: no exception and no message comes of it, the invocations
\* after it are made in order, none is made again, and the comments posted
\* before it stay.
C5_FailureIgnored ==
    /\ exc # "CalledProcessError"
    /\ \A k \in 1..Len(printed) : printed[k] = "Done" \/ k = 1
    /\ \A k \in 1..Len(CommentProcs) :
           \E n \in {prs[k].n} : CommentProcs[k].args[4] = str_int(n)
    /\ \A k \in 1..Len(CommentProcs) :
           Failed(CommentProcs[k]) /\ decode(CommentProcs[k].stdout).ok =>
               \/ k < Len(CommentProcs)
               \/ pc = "comment_wait" /\ i = k
               \/ pc = "comment" /\ i = k + 1
               \/ Returned /\ k = Len(prs)
    /\ Returned => Len(CommentProcs) = Len(prs)
    /\ Len(posted) = Len(Succeeded)
    /\ \A k \in 1..Len(posted) : posted[k].pr = Succeeded[k].args[4]

\* comment() has returned; the first invocation failed, the second was made
\* after it and posted its comment.
C5_Witness ==
    /\ Returned
    /\ Len(CommentProcs) = 2
    /\ Failed(CommentProcs[1])
    /\ CommentProcs[2].returncode = 0
    /\ CommentProcs[1].args[4] = "1"
    /\ CommentProcs[2].args[4] = "2"
    /\ Len(posted) = 1

\* The text the k-th comment invocation printed.
OutputText(k) == decode(CommentProcs[k].stdout).text

\* The length of the texts of the first k comment invocations together.
RECURSIVE Offset(_)
Offset(k) == IF k = 0 THEN 0 ELSE Offset(k - 1) + Len(OutputText(k))

\* C6: the value comment() returns is the texts the invocations printed, one
\* after the other in the order of the identifiers, with nothing between,
\* before or after them; for the empty list it is the empty string.
C6_Concatenation ==
    Returned =>
        /\ Len(ret) = Offset(Len(CommentProcs))
        /\ \A k \in 1..Len(CommentProcs) :
               SubSeq(ret, Offset(k - 1) + 1, Offset(k)) = OutputText(k)
        /\ prs = <<>> => ret = <<>>

\* comment() has returned "bhttps://a\n": the first invocation printed "b",
\* the second "https://a\n".
C6_Witness ==
    /\ Returned
    /\ Len(CommentProcs) = 2
    /\ CommentProcs[1].stdout = C_url_b
    /\ CommentProcs[2].stdout = C_url_a
    /\ ret = C_url_b \o C_url_a

\* C7: at most one subprocess runs at a time: an invocation starts only after
\* every one before it has exited, and the single listing invocation has
\* exited before the prompt is shown and before any comment invocation.
C7_Sequential ==
    /\ Cardinality({k \in 1..Len(procs) : procs[k].status # "exited"}) <= 1
    /\ \A k \in 1..Len(procs) : k < Len(procs) => procs[k].status = "exited"
    /\ Len(ListingProcs) <= 1
    /\ printed # <<>> \/ Len(CommentProcs) > 0 =>
           IsListing(procs[1]) /\ procs[1].status = "exited"

\* The second comment invocation runs; the listing and the first comment
\* invocation have exited.
C7_Witness ==
    /\ Len(procs) = 3
    /\ procs[3].status = "running"
    /\ procs[1].status = "exited"
    /\ procs[2].status = "exited"

\* A line was read and it is not y or Y.
Declined == stdin # <<>> /\ Head(stdin) \notin Yes /\ pc = "exited" /\ printed # <<>>

\* An invocation for every identifier has been made, in order, and has exited.
AllInvoked ==
    /\ Len(CommentProcs) = Len(prs)
    /\ \A k \in 1..Len(prs) :
           /\ CommentProcs[k].status = "exited"
           /\ \E n \in {prs[k].n} : CommentProcs[k].args[4] = str_int(n)

\* A comment for every identifier has been posted, in order.
AllPosted ==
    /\ Len(posted) = Len(prs)
    /\ \A k \in 1..Len(prs) : \E n \in {prs[k].n} : posted[k].pr = str_int(n)

\* C8 as claimed: whenever "Done" is printed the response was y or Y and the
\* comment for every identifier has been posted; it is printed after the last
\* invocation has exited; a run with another response ends without it.
C8_DoneMeansPosted ==
    /\ DonePrinted => response \in Yes /\ AllInvoked /\ AllPosted
    /\ Declined => ~DonePrinted /\ exc = ""

\* C8: whenever "Done" is printed the response was y or Y and an invocation
\* for every identifier has been made and has exited, whether it posted its
\* comment or failed; "Done" is the last thing printed and the run ends with
\* it; a run with another response ends without it and without an error.
C8_DoneMeansInvoked ==
    /\ DonePrinted =>
           /\ stdin # <<>> /\ Head(stdin) \in Yes
           /\ AllInvoked
           /\ printed[Len(printed)] = "Done"
           /\ Len(printed) = 2
           /\ pc = "exited"
           /\ exc = ""
    /\ Declined => ~DonePrinted /\ exc = "" /\ Len(printed) = 1

\* "Done" is printed after two invocations, the second of which failed.
C8_Witness ==
    /\ DonePrinted
    /\ Len(prs) = 2
    /\ AllInvoked
    /\ Failed(CommentProcs[2])
    /\ Len(posted) = 1

\* The listings format extracts a list from.
GoodListings == {listing_of(ns) : ns \in IdLists} \cup {L_5_7, L_spaced, L_object}

\* An argument is missing.
ArgumentMissing == Len(argv) < 3

\* The tool is needed and cannot be started.
ToolMissing == ~ArgumentMissing /\ ~gh_installed

\* The listing was printed and format cannot extract a list from it: it is no
\* UTF-8, no JSON, nothing to iterate, an element has no "number", or an
\* integer has more digits than int() accepts.
ListingUnusable == Formatted /\ procs[1].stdout \notin GoodListings

\* The prompt was shown and standard input was at its end.
EndOfInput == printed # <<>> /\ stdin = <<>>

\* A comment invocation printed bytes that are no UTF-8.
CommentOutputUndecodable ==
    \E k \in 1..Len(CommentProcs) :
        CommentProcs[k].status = "exited" /\ CommentProcs[k].stdout = C_not_utf8

\* A comment invocation was made with the comment file missing.
CommentFileMissing == ~file_exists /\ Len(CommentProcs) > 0

\* C9 as claimed: the run ends abnormally when the listing is malformed, when
\* the comment file is missing or when the tool is missing, and otherwise with
\* the success code (the failures of the arguments, of the prompt and of the
\* decoding of a comment invocation's output are taken as understood).
C9_ExitCodeAsClaimed ==
    pc = "exited" =>
        (exit_code = 1 <=>
            \/ ListingUnusable
            \/ CommentFileMissing
            \/ ToolMissing
            \/ ArgumentMissing \/ EndOfInput \/ CommentOutputUndecodable)

\* C9: the run ends abnormally exactly when an exception propagates: an
\* argument is missing, the tool cannot be started, format fails on the
\* listing, standard input ends at the prompt, or a comment invocation's output
\* is no UTF-8. A missing comment file does not end it abnormally: the
\* invocations fail, are ignored, and the run ends with the success code, as
\* does a declined run and a run with failed invocations.
C9_ExitCode ==
    /\ pc = "exited" =>
           (exit_code = 1 <=>
               \/ ListingUnusable
               \/ ToolMissing
               \/ ArgumentMissing \/ EndOfInput \/ CommentOutputUndecodable)
    /\ pc = "exited" /\ CommentFileMissing => exit_code = 0 /\ DonePrinted
    /\ Declined => exit_code = 0
    /\ pc # "exited" => exc = ""

\* The run has ended with the success code and "Done" after two comment
\* invocations that failed because the comment file is missing.
C9_Witness ==
    /\ pc = "exited"
    /\ ~file_exists
    /\ Len(CommentProcs) = 2
    /\ Failed(CommentProcs[1]) /\ Failed(CommentProcs[2])
    /\ DonePrinted
    /\ exit_code = 0

Hung == \E k \in 1..Len(procs) : procs[k].status = "hung"

\* C10: when every invocation exits and standard input answers, the script
\* ends, after at most one listing invocation and len(prs) comment
\* invocations; when an invocation hangs, the script never ends and starts no
\* invocation after it.
C10_Termination ==
    /\ <>(pc = "exited" \/ Hung)
    /\ [](Len(ListingProcs) <= 1 /\ Len(CommentProcs) <= Len(prs))
    /\ [](Hung => pc \in {"fetch_wait", "comment_wait"} /\ procs[Len(procs)].status = "hung")
    /\ [][Hung => pc' = pc /\ procs' = procs]_vars

\* The second comment invocation hangs and the script waits for it.
C10_Witness ==
    /\ Len(prs) = 2
    /\ Len(CommentProcs) = 2
    /\ CommentProcs[2].status = "hung"
    /\ CommentProcs[1].status = "exited"
    /\ pc = "comment_wait"

====
